---------------------------- MODULE Spec2Model ----------------------------
(***************************************************************************)
(* A model of streamlit_app.py, the NBA DFS lineup optimizer: the four     *)
(* helper functions (parse_csv, filter_players, generate_cores,            *)
(* generate_lineups_from_cores) and the Streamlit script that keeps their  *)
(* results in st.session_state.                                            *)
(*                                                                         *)
(* A DataFrame is modelled as the sequence of its rows, a row as a record  *)
(* whose fields are the columns.  Salaries and projections are whole       *)
(* numbers; value = proj_pts / (salary / 1000) is kept as an exact         *)
(* fraction <<numerator, denominator>> in lowest terms, so that equal      *)
(* values are equal tuples.                                                *)
(***************************************************************************)
EXTENDS Integers, Sequences, FiniteSets, TLC

VARIABLES
    uploaded_file,   \* the file held by st.file_uploader (a raw table) or none
    slate_data,      \* st.session_state['slate_data']
    player_pool,     \* st.session_state['player_pool']
    core_stacks,     \* st.session_state['core_stacks']
    lineups,         \* st.session_state['lineups']
    error,           \* what the last script run showed: "", "upload", "KeyError"
    args,            \* the widget values / arguments the last handler ran with
    df_sorted,       \* generate_cores' local df_sorted at its last call
    built            \* every roster generate_lineups_from_cores built at its
                     \* last call, the ones it did not return included

vars == <<uploaded_file, slate_data, player_pool, core_stacks, lineups,
          error, args, df_sorted, built>>

-----------------------------------------------------------------------------
(* Bounds of the model *)

MaxPool == 4        \* longest pool handed to filter_players / generate_cores
MaxCores == 2       \* largest num_cores
MaxPerCore == 2     \* largest players_per_core in the generate_cores harness
MaxLineupPool == 10 \* longest pool handed to generate_lineups_from_cores
MaxReps == 2        \* largest lineups_per_core
MaxRawRows == 2     \* most rows of an uploaded table

-----------------------------------------------------------------------------
(* A DataFrame in session state: its columns and its rows *)
None == [is_none |-> TRUE, columns |-> {}, rows |-> <<>>]
Some(columns, rows) == [is_none |-> FALSE, columns |-> columns, rows |-> rows]

Min(a, b) == IF a <= b THEN a ELSE b

RECURSIVE GCD(_, _)
GCD(a, b) == IF b = 0 THEN a ELSE GCD(b, a % b)

(* player['proj_pts'] / (player['salary'] / 1000), as an exact fraction *)
Value(proj_pts, salary) ==
    LET n == proj_pts * 1000
        g == GCD(n, salary)
    IN  <<n \div g, salary \div g>>

(* a >= b on fractions with positive denominators *)
ValGeq(a, b) == a[1] * b[2] >= b[1] * a[2]

(* v >= t for a fraction v and a whole threshold t *)
ValGeqNum(v, t) == v[1] >= t * v[2]

RemoveAt(s, i) == SubSeq(s, 1, i - 1) \o SubSeq(s, i + 1, Len(s))

Names(rows) == {rows[i].name : i \in 1..Len(rows)}

(* A cell of a table as pandas read it: [k |-> "num", v] (a number),       *)
(* [k |-> "nan"] (an empty cell) or [k |-> "text", cs] (a string, the      *)
(* sequence of its characters).  Names, positions and teams are cells.     *)
Num(v) == [k |-> "num", v |-> v, cs |-> <<>>]
NaN == [k |-> "nan", v |-> 0, cs |-> <<>>]
Text(cs) == [k |-> "text", v |-> 0, cs |-> cs]
ValueError == [k |-> "ValueError", v |-> 0, cs |-> <<>>]

-----------------------------------------------------------------------------
(* df.sort_values('value', ascending=False)                                *)
(*                                                                         *)
(* The call names no kind, so pandas sorts with its default 'quicksort',   *)
(* which is not a stable sort: the rows come out with value non-increasing *)
(* and the order of rows of equal value is whatever the build's sort       *)
(* produces.  The outcomes are all arrangements with non-increasing value. *)

MaxRows(s) ==
    {i \in 1..Len(s) : \A j \in 1..Len(s) : ValGeq(s[i].value, s[j].value)}

RECURSIVE sort_values(_)
sort_values(s) ==
    IF s = <<>> THEN {<<>>}
    ELSE UNION {{<<s[i]>> \o t : t \in sort_values(RemoveAt(s, i))} : i \in MaxRows(s)}

(* The one arrangement a stable sort gives: equal values in input order *)
RECURSIVE StableSort(_)
StableSort(s) ==
    IF s = <<>> THEN <<>>
    ELSE LET i == CHOOSE k \in MaxRows(s) : \A j \in MaxRows(s) : k <= j
         IN  <<s[i]>> \o StableSort(RemoveAt(s, i))

-----------------------------------------------------------------------------
(* filter_players *)

PassesBelow(p, min_projection, min_value, max_salary) ==
    /\ p.proj_pts >= min_projection
    /\ ValGeqNum(p.value, min_value)
    /\ p.salary < max_salary

Passes(p, min_projection, min_value, max_salary) ==
    /\ p.proj_pts >= min_projection
    /\ ValGeqNum(p.value, min_value)
    /\ p.salary <= max_salary

RECURSIVE Mask(_, _, _, _)
Mask(df, min_projection, min_value, max_salary) ==
    IF df = <<>> THEN <<>>
    ELSE (IF Passes(Head(df), min_projection, min_value, max_salary)
          THEN <<Head(df)>> ELSE <<>>)
         \o Mask(Tail(df), min_projection, min_value, max_salary)

(* The set of DataFrames filter_players may return *)
filter_players(df, min_projection, min_value, max_salary) ==
    sort_values(Mask(df, min_projection, min_value, max_salary))

-----------------------------------------------------------------------------
(* generate_cores *)

(* The dict appended to a core or a lineup; int(salary), float(proj_pts)   *)
(* and float(value) keep the value of a whole-number salary, a projection  *)
(* and a fraction.  player['position'] raises KeyError when the frame has  *)
(* no position column: the entry then carries the mark KeyError, and the   *)
(* handler that built it is aborted (see Raised).  player.get('team', '')  *)
(* defaults.                                                               *)
KeyError == [k |-> "KeyError", v |-> 0, cs |-> <<>>]

Entry(player) ==
    [name |-> player.name,
     position |-> IF "position" \in DOMAIN player THEN player.position ELSE KeyError,
     salary |-> player.salary, proj_pts |-> player.proj_pts,
     value |-> player.value,
     team |-> IF "team" \in DOMAIN player THEN player.team ELSE Text(<<>>)]

(* Whether building these entries raised *)
Raised(entries) == \E i \in 1..Len(entries) : entries[i].position = KeyError

RECURSIVE Flatten(_)
Flatten(ss) == IF ss = <<>> THEN <<>> ELSE Head(ss) \o Flatten(Tail(ss))

RECURSIVE ScanCoreOwnNames(_, _, _, _)
ScanCoreOwnNames(rows, core, used_players, players_per_core) ==
    IF rows = <<>> THEN [core |-> core, used_players |-> used_players]
    ELSE LET player == Head(rows)
         IN  IF player.name \notin Names(core) /\ Len(core) < players_per_core
             THEN ScanCoreOwnNames(Tail(rows), Append(core, Entry(player)),
                                   used_players \cup {player.name}, players_per_core)
             ELSE ScanCoreOwnNames(Tail(rows), core, used_players, players_per_core)

(* for _, player in df_sorted.iterrows(): one core's scan *)
RECURSIVE ScanCore(_, _, _, _)
ScanCore(rows, core, used_players, players_per_core) ==
    IF rows = <<>> THEN [core |-> core, used_players |-> used_players]
    ELSE LET player == Head(rows)
         IN  IF player.name \notin used_players /\ Len(core) < players_per_core
             THEN ScanCore(Tail(rows), Append(core, Entry(player)),
                           used_players \cup {player.name}, players_per_core)
             ELSE ScanCore(Tail(rows), core, used_players, players_per_core)

KeepCoreStarted(core, players_per_core) == Len(core) > 0

(* if len(core) == players_per_core *)
KeepCore(core, players_per_core) == Len(core) = players_per_core

(* for i in range(num_cores) *)
RECURSIVE CoreLoop(_, _, _, _, _)
CoreLoop(rows, todo, cores, used_players, players_per_core) ==
    IF todo <= 0 THEN cores
    ELSE LET r == ScanCore(rows, <<>>, used_players, players_per_core)
         IN  CoreLoop(rows, todo - 1,
                      IF KeepCore(r.core, players_per_core)
                      THEN Append(cores, r.core) ELSE cores,
                      r.used_players, players_per_core)

(* generate_cores after its sort: sorted is one outcome of df.sort_values *)
generate_cores(sorted, num_cores, players_per_core) ==
    CoreLoop(sorted, num_cores, <<>>, {}, players_per_core)

-----------------------------------------------------------------------------
(* generate_lineups_from_cores *)

RosterSize == 9     \* the 9-player lineup

RECURSIVE SumSalary(_)
SumSalary(ps) == IF ps = <<>> THEN 0 ELSE Head(ps).salary + SumSalary(Tail(ps))

RECURSIVE SumProj(_)
SumProj(ps) == IF ps = <<>> THEN 0 ELSE Head(ps).proj_pts + SumProj(Tail(ps))

RECURSIVE NotIn(_, _)
NotIn(df, names) ==
    IF df = <<>> THEN <<>>
    ELSE (IF Head(df).name \notin names THEN <<Head(df)>> ELSE <<>>)
         \o NotIn(Tail(df), names)

(* df[~df['name'].isin(core_names)].sort_values('value', ascending=False) *)
Available(df, core) == sort_values(NotIn(df, Names(core)))

AffordableBelow(current_salary, player, salary_cap) ==
    current_salary + player.salary < salary_cap

(* if current_salary + player['salary'] <= salary_cap *)
Affordable(current_salary, player, salary_cap) ==
    current_salary + player.salary <= salary_cap

RECURSIVE FillAnyName(_, _, _, _, _)
FillAnyName(rows, lineup, current_salary, used_in_lineup, salary_cap) ==
    IF rows = <<>> \/ Len(lineup) >= RosterSize
    THEN [lineup |-> lineup, current_salary |-> current_salary]
    ELSE LET player == Head(rows)
         IN  IF Affordable(current_salary, player, salary_cap)
             THEN FillAnyName(Tail(rows), Append(lineup, Entry(player)),
                              current_salary + player.salary,
                              used_in_lineup \cup {player.name}, salary_cap)
             ELSE FillAnyName(Tail(rows), lineup, current_salary,
                              used_in_lineup, salary_cap)

(* for _, player in available.iterrows(): the fill of one roster *)
RECURSIVE Fill(_, _, _, _, _)
Fill(rows, lineup, current_salary, used_in_lineup, salary_cap) ==
    IF rows = <<>> \/ Len(lineup) >= RosterSize
    THEN [lineup |-> lineup, current_salary |-> current_salary]
    ELSE LET player == Head(rows)
         IN  IF /\ player.name \notin used_in_lineup
                /\ Affordable(current_salary, player, salary_cap)
             THEN Fill(Tail(rows), Append(lineup, Entry(player)),
                       current_salary + player.salary,
                       used_in_lineup \cup {player.name}, salary_cap)
             ELSE Fill(Tail(rows), lineup, current_salary, used_in_lineup, salary_cap)

(* One pass of the body of "for lineup_num in range(lineups_per_core)" *)
Roster(core_idx, core, available, salary_cap) ==
    LET f == Fill(available, core, SumSalary(core), Names(core), salary_cap)
    IN  [core_set |-> core_idx, core |-> core, available |-> available,
         lineup |-> f.lineup, current_salary |-> f.current_salary]

(* Every roster the two loops build, in order, for each way the sorts of   *)
(* "available" can come out.  The repetitions of one core walk the same    *)
(* available frame.                                                        *)
RECURSIVE Rosters(_, _, _, _, _)
Rosters(df, cores, core_idx, lineups_per_core, salary_cap) ==
    IF core_idx > Len(cores) THEN {<<>>}
    ELSE {[n \in 1..lineups_per_core |->
              Roster(core_idx, cores[core_idx], available, salary_cap)] \o rest :
            available \in Available(df, cores[core_idx]),
            rest \in Rosters(df, cores, core_idx + 1, lineups_per_core, salary_cap)}

CompleteOrNot(lineup) == TRUE

(* if len(lineup) == 9 *)
Complete(lineup) == Len(lineup) = RosterSize

LineupRecord(r, salary_cap) ==
    [core_set |-> r.core_set, lineup |-> r.lineup,
     total_salary |-> r.current_salary,
     remaining_salary |-> salary_cap - r.current_salary,
     projected_points |-> SumProj(r.lineup),
     num_players |-> Len(r.lineup)]

(* all_lineups, given the rosters built *)
RECURSIVE all_lineups(_, _)
all_lineups(rosters, salary_cap) ==
    IF rosters = <<>> THEN <<>>
    ELSE (IF Complete(Head(rosters).lineup)
          THEN <<LineupRecord(Head(rosters), salary_cap)>> ELSE <<>>)
         \o all_lineups(Tail(rosters), salary_cap)

-----------------------------------------------------------------------------
(* parse_csv                                                               *)
(*                                                                         *)
(* A raw table is [columns, rows]: the header strings and, per row, one    *)
(* cell per column.  A header is the sequence of its characters, so that   *)
(* lower(), "in" and replace() do their work on it.                        *)

(* str.lower(), on the letters the headers use *)
LowerChar(c) ==
    CASE c = "N" -> "n" [] c = "P" -> "p" [] c = "S" -> "s" [] c = "F" -> "f"
      [] c = "G" -> "g" [] c = "T" -> "t" [] c = "O" -> "o" [] OTHER -> c

Lower(col) == [i \in 1..Len(col) |-> LowerChar(col[i])]

(* sub in s *)
Contains(s, sub) ==
    \E i \in 0..(Len(s) - Len(sub)) : SubSeq(s, i + 1, i + Len(sub)) = sub

(* s.replace(c, '') *)
RECURSIVE Strip(_, _)
Strip(s, c) ==
    IF s = <<>> THEN <<>>
    ELSE (IF Head(s) = c THEN <<>> ELSE <<Head(s)>>) \o Strip(Tail(s), c)

Digits == <<"0", "1", "2", "3", "4", "5", "6", "7", "8", "9">>
IsDigit(c) == \E d \in 1..10 : Digits[d] = c
DigitVal(c) == (CHOOSE d \in 1..10 : Digits[d] = c) - 1

RECURSIVE DigitsVal(_, _)
DigitsVal(cs, acc) ==
    IF cs = <<>> THEN acc ELSE DigitsVal(Tail(cs), 10 * acc + DigitVal(Head(cs)))

(* float(s) of a string: a string of digits is a number, and any other     *)
(* string of the cells' alphabet (letters, "$", ",", none at all) raises   *)
(* ValueError                                                              *)
FloatOfString(cs) ==
    IF cs # <<>> /\ \A i \in 1..Len(cs) : IsDigit(cs[i])
    THEN Num(DigitsVal(cs, 0)) ELSE ValueError

(* float(row[col]) *)
Float(cell) ==
    CASE cell.k = "num" -> cell
      [] cell.k = "nan" -> NaN
      [] OTHER -> FloatOfString(cell.cs)

(* float(str(row[col]).replace('$', '').replace(',', '')): str() of a      *)
(* number or of nan reads back as itself                                   *)
SalaryFloat(cell) ==
    CASE cell.k = "num" -> cell
      [] cell.k = "nan" -> NaN
      [] OTHER -> FloatOfString(Strip(Strip(cell.cs, "$"), ","))

s_name == <<"n", "a", "m", "e">>
s_nickname == <<"n", "i", "c", "k", "n", "a", "m", "e">>
s_pos == <<"p", "o", "s">>
s_opp == <<"o", "p", "p">>
s_sal == <<"s", "a", "l">>
s_salary == <<"s", "a", "l", "a", "r", "y">>
s_proj == <<"p", "r", "o", "j">>
s_fppg == <<"f", "p", "p", "g">>
s_team == <<"t", "e", "a", "m">>
s_own == <<"o", "w", "n">>

(* The if / elif chain: the key of player a column writes, "" for none *)
Field(col) ==
    LET col_lower == Lower(col)
    IN  CASE Contains(col_lower, s_name) \/ col_lower = s_nickname -> "name"
          [] Contains(col_lower, s_pos) /\ ~Contains(col_lower, s_opp) -> "position"
          [] Contains(col_lower, s_sal) \/ col_lower = s_salary -> "salary"
          [] Contains(col_lower, s_proj) \/ Contains(col_lower, s_fppg) -> "proj_pts"
          [] Contains(col_lower, s_team) /\ ~Contains(col_lower, s_opp) -> "team"
          [] Contains(col_lower, s_own) -> "ownership"
          [] OTHER -> ""

(* What the column's branch stores: the cell itself, or its float *)
Stored(field, cell) ==
    CASE field = "salary" -> SalaryFloat(cell)
      [] field \in {"proj_pts", "ownership"} -> Float(cell)
      [] OTHER -> cell

(* for col in df.columns: [raised, player], the player dict of one row     *)
(* after its first n columns, raised once a float() raised ValueError      *)
RECURSIVE PlayerDict(_, _, _)
PlayerDict(columns, row, n) ==
    IF n = 0 THEN [raised |-> FALSE, player |-> [key \in {} |-> NaN]]
    ELSE LET before == PlayerDict(columns, row, n - 1)
             field == Field(columns[n])
             v == Stored(field, row[n])
         IN  IF before.raised \/ field = "" THEN before
             ELSE IF v = ValueError THEN [raised |-> TRUE, player |-> before.player]
             ELSE [raised |-> FALSE,
                   player |-> [key \in DOMAIN before.player \cup {field} |->
                                  IF key = field THEN v ELSE before.player[key]]]

(* player.get(key, 0) > 0; nan > 0 is False *)
Positive(player, key) ==
    key \in DOMAIN player /\ player[key].k = "num" /\ player[key].v > 0

IncludedAnyProjection(player) ==
    /\ "name" \in DOMAIN player
    /\ Positive(player, "salary")
    /\ "proj_pts" \in DOMAIN player

(* if 'name' in player and salary > 0 and proj_pts > 0 *)
Included(player) ==
    /\ "name" \in DOMAIN player
    /\ Positive(player, "salary")
    /\ Positive(player, "proj_pts")

(* The row players.append(player) adds: the dict with its value.  salary   *)
(* and proj_pts, numbers by now, are kept as plain numbers.                *)
PlayerRow(player) ==
    [key \in DOMAIN player \cup {"value"} |->
        CASE key = "value" -> Value(player["proj_pts"].v, player["salary"].v)
          [] key \in {"salary", "proj_pts"} -> player[key].v
          [] OTHER -> player[key]]

(* for _, row in df.iterrows(): [raised, players] after the first n rows *)
RECURSIVE ParseRows(_, _)
ParseRows(df, n) ==
    IF n = 0 THEN [raised |-> FALSE, players |-> <<>>]
    ELSE LET before == ParseRows(df, n - 1)
             d == PlayerDict(df.columns, df.rows[n], Len(df.columns))
         IN  IF before.raised THEN before
             ELSE IF d.raised THEN [raised |-> TRUE, players |-> before.players]
             ELSE IF Included(d.player)
                  THEN [raised |-> FALSE,
                        players |-> Append(before.players, PlayerRow(d.player))]
                  ELSE before

(* parse_csv(df): [raised, players], players being the rows of the         *)
(* DataFrame returned                                                      *)
parse_csv(df) == ParseRows(df, Len(df.rows))

-----------------------------------------------------------------------------
(* The Streamlit script.  Every interaction (a file chosen, a button      *)
(* pressed) runs the script once from top to bottom: the upload block of   *)
(* tab1 first, then the handler of the button pressed.                     *)

CoreSize == 4       \* players_per_core=4 in the Generate Core Stacks handler

NoFile == [is_none |-> TRUE, columns |-> <<>>, rows |-> <<>>]
File(columns, rows) == [is_none |-> FALSE, columns |-> columns, rows |-> rows]

(* pd.DataFrame(players): the columns are the keys of the dicts, none when *)
(* there is no dict                                                        *)
DataFrame(players) ==
    Some(IF players = <<>> THEN {} ELSE DOMAIN players[1], players)

(* parsed_df.nlargest(15, 'value')[[...]] raises KeyError on a frame       *)
(* without one of the six columns                                          *)
PreviewColumns == {"name", "position", "team", "salary", "proj_pts", "value"}

(* with tab1: what the upload block leaves in slate_data and shows *)
Tab1(file, slate) ==
    IF file.is_none THEN [slate_data |-> slate, error |-> ""]
    ELSE LET r == parse_csv(file)
             parsed_df == DataFrame(r.players)
         IN  IF r.raised THEN [slate_data |-> slate, error |-> "upload"]
             ELSE [slate_data |-> parsed_df,
                   error |-> IF PreviewColumns \subseteq parsed_df.columns
                             THEN "" ELSE "upload"]

DefaultArgs ==
    [fn |-> "", min_projection |-> 20, min_value |-> 4, max_salary |-> 12000,
     num_cores |-> 4, players_per_core |-> 4, lineups_per_core |-> 5,
     salary_cap |-> 60000]

(* A script run with no button pressed *)
Rerun ==
    LET t == Tab1(uploaded_file, slate_data)
    IN  /\ slate_data' = t.slate_data
        /\ error' = t.error
        /\ args' = [args EXCEPT !.fn = "rerun"]
        /\ UNCHANGED <<uploaded_file, player_pool, core_stacks, lineups,
                       df_sorted, built>>

(* The user puts a file in the uploader, or takes it out *)
ChooseFile(files) ==
    \E file \in files :
        LET t == Tab1(file, slate_data)
        IN  /\ file # uploaded_file
            /\ uploaded_file' = file
            /\ slate_data' = t.slate_data
            /\ error' = t.error
            /\ args' = [args EXCEPT !.fn = "rerun"]
            /\ UNCHANGED <<player_pool, core_stacks, lineups, df_sorted, built>>

(* "Apply Filters": the button is there once slate_data is set *)
ApplyFilters(projections, values, salaries) ==
    \E min_projection \in projections, min_value \in values, max_salary \in salaries :
        LET t == Tab1(uploaded_file, slate_data)
            df == t.slate_data
        IN  /\ ~slate_data.is_none
            /\ slate_data' = df
            /\ args' = [args EXCEPT !.fn = "filter_players",
                                    !.min_projection = min_projection,
                                    !.min_value = min_value,
                                    !.max_salary = max_salary]
            /\ IF ~({"proj_pts", "value", "salary"} \subseteq df.columns)
               THEN \* df['proj_pts'] raises KeyError: the run ends there
                    /\ error' = KeyError.k
                    /\ UNCHANGED player_pool
               ELSE /\ \E filtered \in filter_players(df.rows, min_projection,
                                                      min_value, max_salary) :
                           player_pool' = Some(df.columns, filtered)
                    /\ error' = IF PreviewColumns \subseteq df.columns
                                THEN t.error ELSE KeyError.k
            /\ UNCHANGED <<uploaded_file, core_stacks, lineups, df_sorted, built>>

(* "Generate Core Stacks": the button is there once player_pool is set *)
GenerateCoreStacks(counts, sizes) ==
    \E num_cores \in counts, players_per_core \in sizes :
        LET t == Tab1(uploaded_file, slate_data)
        IN  /\ ~player_pool.is_none
            /\ slate_data' = t.slate_data
            /\ args' = [args EXCEPT !.fn = "generate_cores",
                                    !.num_cores = num_cores,
                                    !.players_per_core = players_per_core]
            /\ \E sorted \in sort_values(player_pool.rows) :
                 LET cores == generate_cores(sorted, num_cores, players_per_core)
                 IN  IF Raised(Flatten(cores))
                     THEN /\ error' = KeyError.k
                          /\ UNCHANGED <<core_stacks, df_sorted>>
                     ELSE /\ error' = t.error
                          /\ core_stacks' = cores
                          /\ df_sorted' = sorted
            /\ UNCHANGED <<uploaded_file, player_pool, lineups, built>>

(* "Generate All Lineups": the button is there once core_stacks is not     *)
(* empty                                                                   *)
GenerateAllLineups(repetitions, caps) ==
    \E lineups_per_core \in repetitions, salary_cap \in caps :
        LET t == Tab1(uploaded_file, slate_data)
        IN  /\ core_stacks # <<>>
            /\ slate_data' = t.slate_data
            /\ args' = [args EXCEPT !.fn = "generate_lineups_from_cores",
                                    !.lineups_per_core = lineups_per_core,
                                    !.salary_cap = salary_cap]
            /\ \E rosters \in Rosters(player_pool.rows, core_stacks, 1,
                                      lineups_per_core, salary_cap) :
                 IF \E i \in 1..Len(rosters) : Raised(rosters[i].lineup)
                 THEN /\ error' = KeyError.k
                      /\ UNCHANGED <<lineups, built>>
                 ELSE /\ error' = t.error
                      /\ lineups' = all_lineups(rosters, salary_cap)
                      /\ built' = rosters
            /\ UNCHANGED <<uploaded_file, player_pool, core_stacks, df_sorted>>

-----------------------------------------------------------------------------
(* Inputs *)

Player(name, salary, proj_pts) ==
    [name |-> Text(<<name>>), position |-> Text(<<"P", "G">>),
     team |-> Text(<<"B", "O", "S">>), salary |-> salary, proj_pts |-> proj_pts,
     value |-> Value(proj_pts, salary)]

PlayerColumns == {"name", "position", "team", "salary", "proj_pts", "value"}

(* Salary and projection of the spec's scenario: values 5, 4 and 5 *)
Stats == {<<10000, 50>>, <<8000, 32>>, <<5000, 25>>}

Players(names, stats) == {Player(n, s[1], s[2]) : n \in names, s \in stats}

Pools(players, longest) == UNION {[1..n -> players] : n \in 0..longest}

FilterPools == Pools(Players({"A", "B"}, Stats), MaxPool)

CorePools ==
    Pools(Players({"A", "B"}, {<<10000, 50>>, <<8000, 32>>})
            \cup {Player("C", 8000, 32), Player("D", 5000, 25)}, MaxPool)

(* The function under study is pure: one call per behaviour shows all it   *)
(* does                                                                    *)
NotCalled == args.fn = ""

InitSession ==
    /\ uploaded_file = NoFile
    /\ slate_data = None
    /\ player_pool = None
    /\ core_stacks = <<>>
    /\ lineups = <<>>
    /\ error = ""
    /\ args = DefaultArgs
    /\ df_sorted = <<>>
    /\ built = <<>>

-----------------------------------------------------------------------------
(* filter_players on every pool and threshold triple of the bounds *)

InitFilter ==
    /\ slate_data \in {Some(PlayerColumns, rows) : rows \in FilterPools}
    /\ uploaded_file = NoFile
    /\ player_pool = None
    /\ core_stacks = <<>>
    /\ lineups = <<>>
    /\ error = ""
    /\ args = DefaultArgs
    /\ df_sorted = <<>>
    /\ built = <<>>

NextFilter == NotCalled /\ ApplyFilters({20, 32}, {4, 5}, {8000, 12000})

SpecFilter == InitFilter /\ [][NextFilter]_vars

-----------------------------------------------------------------------------
(* generate_cores on every pool, num_cores and players_per_core of the     *)
(* bounds                                                                  *)

InitCores ==
    /\ player_pool \in {Some(PlayerColumns, rows) : rows \in CorePools}
    /\ uploaded_file = NoFile
    /\ slate_data = None
    /\ core_stacks = <<>>
    /\ lineups = <<>>
    /\ error = ""
    /\ args = DefaultArgs
    /\ df_sorted = <<>>
    /\ built = <<>>

NextCores == NotCalled /\ GenerateCoreStacks(0..MaxCores, 1..MaxPerCore)

SpecCores == InitCores /\ [][NextCores]_vars

-----------------------------------------------------------------------------
(* Properties of filter_players (checked under SpecFilter) *)

Count(rows, p) == Cardinality({i \in 1..Len(rows) : rows[i] = p})

NonIncreasing(rows) ==
    \A i, j \in 1..Len(rows) : i < j => ValGeq(rows[i].value, rows[j].value)

(* C6: the frame Apply Filters stores holds exactly the rows of slate_data *)
(* with proj_pts >= min_projection, value >= min_value and salary <=       *)
(* max_salary, each as often as slate_data holds it and no other row, with *)
(* value non-increasing along it; slate_data itself is left as it was.     *)
C6_FilterExact ==
    [][args'.fn = "filter_players" =>
         /\ slate_data' = slate_data
         /\ ~player_pool'.is_none
         /\ \A i \in 1..Len(slate_data.rows) :
              LET p == slate_data.rows[i]
              IN  Count(player_pool'.rows, p) =
                    IF /\ p.proj_pts >= args'.min_projection
                       /\ p.value[1] >= args'.min_value * p.value[2]
                       /\ p.salary <= args'.max_salary
                    THEN Count(slate_data.rows, p) ELSE 0
         /\ \A i \in 1..Len(player_pool'.rows) :
              Count(slate_data.rows, player_pool'.rows[i]) > 0
         /\ NonIncreasing(player_pool'.rows)]_vars

(* A call that kept some rows and dropped others, one kept row sitting on  *)
(* the salary bound and one on the value bound *)
C6_Witness ==
    /\ args.fn = "filter_players"
    /\ Len(player_pool.rows) >= 2
    /\ Len(player_pool.rows) < Len(slate_data.rows)
    /\ \E i \in 1..Len(player_pool.rows) :
         player_pool.rows[i].salary = args.max_salary
    /\ \E i \in 1..Len(player_pool.rows) :
         player_pool.rows[i].value = <<args.min_value, 1>>

(* C7: rows of equal value come out of the value-descending sort in their  *)
(* input order, as a stable sort leaves them.                              *)
C7_StableOrder ==
    args.fn = "filter_players" =>
        player_pool.rows =
            StableSort(Mask(slate_data.rows, args.min_projection,
                            args.min_value, args.max_salary))

-----------------------------------------------------------------------------
(* Properties of generate_cores (checked under SpecCores) *)

Distinct(rows) == \A i, j \in 1..Len(rows) : rows[i].name = rows[j].name => i = j

(* C1: no name occurs twice in the cores returned, in one core or in two,  *)
(* and every core returned has exactly players_per_core players.           *)
C1_CoresDisjointFull ==
    args.fn = "generate_cores" =>
        /\ Distinct(Flatten(core_stacks))
        /\ \A k \in 1..Len(core_stacks) :
             Len(core_stacks[k]) = args.players_per_core

(* A pool with a repeated name from which one full core came and a second, *)
(* short of players, was dropped *)
C1_Witness ==
    /\ args.fn = "generate_cores"
    /\ args.num_cores = 2
    /\ args.players_per_core = 2
    /\ Len(core_stacks) = 1
    /\ ~Distinct(player_pool.rows)
    /\ Cardinality(Names(player_pool.rows)) = 3

(* C8: on a pool of n players with distinct names, generate_cores returns  *)
(* min(num_cores, n \div size) cores (none for num_cores <= 0), the k-th   *)
(* being rows (k-1)*size+1 .. k*size of the value-descending pool, in that *)
(* order; no error is raised, for the empty pool either.                   *)
C8_CoresArePrefixBlocks ==
    (args.fn = "generate_cores" /\ Distinct(player_pool.rows)) =>
        LET size == args.players_per_core
            n == Len(player_pool.rows)
        IN  /\ error = ""
            /\ Len(core_stacks) = Min(args.num_cores, n \div size)
            /\ Len(df_sorted) = n
            /\ NonIncreasing(df_sorted)
            /\ \A i \in 1..n : Count(df_sorted, player_pool.rows[i]) = 1
            /\ \A k \in 1..Len(core_stacks) :
                 core_stacks[k] = SubSeq(df_sorted, (k - 1) * size + 1, k * size)

(* Two cores of two players each from four players, the pool not in value  *)
(* order *)
C8_Witness ==
    /\ args.fn = "generate_cores"
    /\ Distinct(player_pool.rows)
    /\ Len(core_stacks) = 2
    /\ args.players_per_core = 2
    /\ ~NonIncreasing(player_pool.rows)

(* The empty pool: an empty list and no error *)
C8_WitnessEmpty ==
    /\ args.fn = "generate_cores"
    /\ player_pool.rows = <<>>
    /\ args.num_cores > 0
    /\ core_stacks = <<>>
    /\ error = ""

-----------------------------------------------------------------------------
(* generate_lineups_from_cores on the MaxCores cores generate_cores makes  *)
(* of the pool: pools of RosterSize .. MaxLineupPool players, each at one  *)
(* of two salaries, the last one named like the first in half of them      *)

Letters == <<"A", "B", "C", "D", "E", "F", "G", "H", "I", "J", "K", "L", "M">>

Salaries == <<4000, 8000>>
LowSalary == Salaries[1]
HighSalary == Salaries[2]

(* The i-th player is worth a little more per dollar than the one before,  *)
(* at either salary                                                        *)
LineupPool(n, salary, repeated) ==
    [i \in 1..n |->
        Player(Letters[IF repeated /\ i = n THEN 1 ELSE i], salary[i],
               IF salary[i] = HighSalary THEN 20 * i + 3 ELSE 10 * i + 1)]

LineupPools ==
    UNION {{LineupPool(n, salary, repeated) :
               salary \in [1..n -> {LowSalary, HighSalary}], repeated \in BOOLEAN} :
           n \in RosterSize..MaxLineupPool}

(* The Salary Cap widget's least value and its default *)
Caps == {40000, 60000}

InitLineups ==
    /\ player_pool \in {Some(PlayerColumns, rows) : rows \in LineupPools}
    /\ uploaded_file = NoFile
    /\ slate_data = None
    /\ core_stacks = <<>>
    /\ lineups = <<>>
    /\ error = ""
    /\ args = DefaultArgs
    /\ df_sorted = <<>>
    /\ built = <<>>

NextLineups ==
    \/ NotCalled /\ GenerateCoreStacks({MaxCores}, {CoreSize})
    \/ args.fn = "generate_cores" /\ GenerateAllLineups(1..MaxReps, Caps)

SpecLineups == InitLineups /\ [][NextLineups]_vars

-----------------------------------------------------------------------------
(* Properties of generate_lineups_from_cores (checked under SpecLineups) *)

Called == args.fn = "generate_lineups_from_cores"

(* C2: no lineup returned holds a player name twice.                       *)
C2_NoDuplicateNames ==
    Called => \A l \in 1..Len(lineups) : Distinct(lineups[l].lineup)

(* A lineup returned from a pool that repeats a name, holding every name   *)
(* of the pool *)
C2_Witness ==
    /\ Called
    /\ lineups # <<>>
    /\ ~Distinct(player_pool.rows)
    /\ \E l \in 1..Len(lineups) :
         Names(player_pool.rows) = Names(lineups[l].lineup)

Kept == {i \in 1..Len(built) : Len(built[i].lineup) = RosterSize}

Picked(r) ==
    {j \in 1..Len(r.available) :
        \E m \in (Len(r.core) + 1)..Len(r.lineup) : r.lineup[m] = r.available[j]}

RECURSIVE Restrict(_, _, _)
Restrict(rows, keep, n) ==
    IF n = 0 THEN <<>>
    ELSE Restrict(rows, keep, n - 1) \o (IF n \in keep THEN <<rows[n]>> ELSE <<>>)

(* The roster as it stands when the walk reaches row j of available *)
Before(r, j) == r.core \o Restrict(r.available, Picked(r), j - 1)

(* C9: every roster starts with its core in core order; available is the  *)
(* rows of the pool outside the core in value-descending order; walking    *)
(* it once, a row is appended if and only if the roster has fewer than 9   *)
(* players, does not hold the row's name and the salary so far plus the    *)
(* row's is within the cap; the salary so far is the core's plus that of   *)
(* the rows appended.  A roster whose core is within the cap ends within   *)
(* the cap, and a record returned has total_salary within the cap and      *)
(* remaining_salary = salary_cap - total_salary >= 0.                      *)
C9_FirstFit ==
    Called =>
        /\ \A i \in 1..Len(built) :
             LET r == built[i]
                 before(j) == Before(r, j)
             IN  /\ SubSeq(r.lineup, 1, Len(r.core)) = r.core
                 /\ NonIncreasing(r.available)
                 /\ \A p \in 1..Len(player_pool.rows) :
                      Count(r.available, player_pool.rows[p]) =
                        IF player_pool.rows[p].name \in Names(r.core) THEN 0 ELSE 1
                 /\ Len(r.available) <= Len(player_pool.rows)
                 /\ r.lineup = before(Len(r.available) + 1)
                 /\ r.current_salary = SumSalary(r.lineup)
                 /\ \A j \in 1..Len(r.available) :
                      j \in Picked(r) <=>
                        /\ Len(before(j)) < RosterSize
                        /\ r.available[j].name \notin Names(before(j))
                        /\ SumSalary(before(j)) + r.available[j].salary
                             <= args.salary_cap
                 /\ SumSalary(r.core) <= args.salary_cap =>
                      r.current_salary <= args.salary_cap
        /\ \A l \in 1..Len(lineups) :
             /\ lineups[l].total_salary = SumSalary(lineups[l].lineup)
             /\ lineups[l].remaining_salary =
                  args.salary_cap - lineups[l].total_salary
             /\ SumSalary(core_stacks[lineups[l].core_set]) <= args.salary_cap =>
                  /\ lineups[l].total_salary <= args.salary_cap
                  /\ lineups[l].remaining_salary >= 0

(* A lineup returned whose fill passed over a row it could not afford, its *)
(* name not in the roster, and took a later row, ending exactly on the cap *)
C9_Witness ==
    /\ Called
    /\ \E i \in Kept :
         /\ \E j, k \in 1..Len(built[i].available) :
              /\ j < k
              /\ j \notin Picked(built[i])
              /\ k \in Picked(built[i])
              /\ built[i].available[j].name \notin Names(Before(built[i], j))
         /\ built[i].current_salary = args.salary_cap
         /\ lineups[1].lineup = built[i].lineup

-----------------------------------------------------------------------------
(* The upload of a slate file: tables of up to MaxRawRows rows under four  *)
(* headers, with numbers, empty cells, currency strings and other text in  *)
(* the salary and projection columns                                       *)

h_Name == <<"N", "a", "m", "e">>
h_Nickname == <<"N", "i", "c", "k", "n", "a", "m", "e">>
h_Position == <<"P", "o", "s", "i", "t", "i", "o", "n">>
h_Salary == <<"S", "a", "l", "a", "r", "y">>
h_FPPG == <<"F", "P", "P", "G">>
h_Proj == <<"P", "r", "o", "j">>
h_Team == <<"T", "e", "a", "m">>
h_Opponent == <<"O", "p", "p", "o", "n", "e", "n", "t">>

Headers ==
    {<<h_Name, h_Position, h_Salary, h_FPPG, h_Team>>,
     <<h_Nickname, h_Salary, h_Proj, h_Opponent>>,
     <<h_Position, h_Salary, h_FPPG, h_Team>>,
     <<h_Name, h_Position, h_FPPG, h_Team>>}

(* The cells a column may hold *)
Cells(col) ==
    CASE col \in {h_Name, h_Nickname} -> {Text(<<"A">>)}
      [] col = h_Position -> {Text(<<"P", "G">>)}
      [] col = h_Salary ->
           {Num(5000), Num(0), NaN, Text(<<"$", "4", ",", "0", "0", "0">>),
            Text(<<"T", "B", "D">>)}
      [] col \in {h_FPPG, h_Proj} -> {Num(25), Num(0), NaN, Text(<<"-">>)}
      [] col = h_Team -> {Text(<<"B", "O", "S">>)}
      [] OTHER -> {Text(<<"L", "A", "L">>)}

(* The rows of n cells under the first n columns *)
RECURSIVE RawRowsOf(_, _)
RawRowsOf(columns, n) ==
    IF n = 0 THEN {<<>>}
    ELSE {Append(row, cell) : row \in RawRowsOf(columns, n - 1),
                              cell \in Cells(columns[n])}

RawRows(columns) == RawRowsOf(columns, Len(columns))

InitParse ==
    /\ \E columns \in Headers, n \in 0..MaxRawRows :
         \E rows \in [1..n -> RawRows(columns)] :
            uploaded_file = File(columns, rows)
    /\ slate_data = None
    /\ player_pool = None
    /\ core_stacks = <<>>
    /\ lineups = <<>>
    /\ error = ""
    /\ args = DefaultArgs
    /\ df_sorted = <<>>
    /\ built = <<>>

NextParse == NotCalled /\ Rerun

SpecParse == InitParse /\ [][NextParse]_vars

-----------------------------------------------------------------------------
(* Properties of parse_csv and the upload block (checked under SpecParse) *)

Ran == args.fn = "rerun"

(* The column of the table that ends up in player[field]: the last one     *)
(* mapped to it; 0 when there is none                                      *)
ColumnOf(columns, field) ==
    LET cs == {c \in 1..Len(columns) : Field(columns[c]) = field}
    IN  IF cs = {} THEN 0 ELSE CHOOSE c \in cs : \A d \in cs : d <= c

(* The number a row holds for a field, as a cell; NaN when the table has   *)
(* no such column                                                          *)
NumberOf(columns, row, field) ==
    LET c == ColumnOf(columns, field)
    IN  IF c = 0 THEN NaN
        ELSE IF field = "salary" THEN SalaryFloat(row[c]) ELSE Float(row[c])

Parseable(columns, row) ==
    /\ NumberOf(columns, row, "salary") # ValueError
    /\ NumberOf(columns, row, "proj_pts") # ValueError

(* A row with a name column, a salary > 0 and a projection > 0 *)
Good(columns, row) ==
    /\ ColumnOf(columns, "name") # 0
    /\ NumberOf(columns, row, "salary").k = "num"
    /\ NumberOf(columns, row, "salary").v > 0
    /\ NumberOf(columns, row, "proj_pts").k = "num"
    /\ NumberOf(columns, row, "proj_pts").v > 0

GoodRows(file) ==
    {r \in 1..Len(file.rows) :
        Parseable(file.columns, file.rows[r]) /\ Good(file.columns, file.rows[r])}

(* C4 as stated: a row with a non-numeric salary or projection cell is     *)
(* dropped alone; the rows that parse and have a name, a salary > 0 and a  *)
(* projection > 0 are returned, and the run does not end in the except     *)
(* branch without storing them.                                            *)
C4_BadRowDroppedAlone ==
    Ran =>
        /\ ~slate_data.is_none
        /\ Len(slate_data.rows) = Cardinality(GoodRows(uploaded_file))

(* C5: when every cell of the table parses, slate_data holds one record    *)
(* per row that has a name column, salary > 0 and projection > 0, in row   *)
(* order, and none for any other row; each record carries that salary and  *)
(* projection, both > 0, and value = proj_pts / (salary / 1000).           *)
C5_IncludedIffPositive ==
    (Ran /\ \A r \in 1..Len(uploaded_file.rows) :
               Parseable(uploaded_file.columns, uploaded_file.rows[r])) =>
        LET file == uploaded_file
            good == GoodRows(file)
        IN  /\ ~slate_data.is_none
            /\ Len(slate_data.rows) = Cardinality(good)
            /\ \A r \in good :
                 LET rec == slate_data.rows[Cardinality({q \in good : q <= r})]
                     salary == NumberOf(file.columns, file.rows[r], "salary").v
                     proj_pts == NumberOf(file.columns, file.rows[r], "proj_pts").v
                 IN  /\ rec.name = file.rows[r][ColumnOf(file.columns, "name")]
                     /\ rec.salary = salary
                     /\ rec.proj_pts = proj_pts
                     /\ rec.value[2] > 0
                     /\ rec.value[1] * salary = proj_pts * 1000 * rec.value[2]
            /\ \A i \in 1..Len(slate_data.rows) :
                 slate_data.rows[i].salary > 0 /\ slate_data.rows[i].proj_pts > 0

(* A table of two rows that parse, the first kept (its salary written      *)
(* "$4,000"), the second dropped for its projection of 0 *)
C5_Witness ==
    /\ Ran
    /\ Len(uploaded_file.rows) = 2
    /\ Len(slate_data.rows) = 1
    /\ slate_data.rows[1].salary = 4000
    /\ NumberOf(uploaded_file.columns, uploaded_file.rows[2], "proj_pts") = Num(0)
    /\ NumberOf(uploaded_file.columns, uploaded_file.rows[2], "salary") = Num(5000)

-----------------------------------------------------------------------------
(* The whole app: two slate files, the tabs' buttons in any order *)

(* Ten players under Name, Position, Salary, FPPG, Team; the last one, the *)
(* best per dollar, at the high salary                                     *)
SlateFile ==
    File(<<h_Name, h_Position, h_Salary, h_FPPG, h_Team>>,
         [i \in 1..10 |->
            <<Text(<<Letters[i]>>), Text(<<"P", "G">>),
              Num(IF i = 10 THEN HighSalary ELSE LowSalary),
              Num(IF i = 10 THEN 20 * i + 3 ELSE 10 * i + 21),
              Text(<<"B", "O", "S">>)>>])

(* Three players under Nickname, Salary, Proj, Opponent: no position *)
ShortFile ==
    File(<<h_Nickname, h_Salary, h_Proj, h_Opponent>>,
         [i \in 1..3 |->
            <<Text(<<Letters[i]>>), Text(<<"$", "4", ",", "0", "0", "0">>),
              Num(24 + i), Text(<<"L", "A", "L">>)>>])

InitApp == InitSession

NextApp ==
    \/ ChooseFile({SlateFile, ShortFile})
    \/ ApplyFilters({20}, {4}, {LowSalary, 12000})
    \/ GenerateCoreStacks(1..MaxCores, {CoreSize})
    \/ GenerateAllLineups(1..MaxReps, {60000})

SpecApp == InitApp /\ [][NextApp]_vars

(* C10: when Generate All Lineups has run, every player of every stored    *)
(* lineup, the core's included, is a row of the stored player pool and     *)
(* satisfies the thresholds the pool was filtered with.                    *)
C10_LineupsFromStoredPool ==
    (Called /\ error = "") =>
        \A l \in 1..Len(lineups) :
            \A m \in 1..Len(lineups[l].lineup) :
                LET p == lineups[l].lineup[m]
                IN  /\ \E i \in 1..Len(player_pool.rows) :
                         player_pool.rows[i].name = p.name
                    /\ p.salary <= args.max_salary
                    /\ p.proj_pts >= args.min_projection
                    /\ p.value[1] >= args.min_value * p.value[2]

=============================================================================
